---------------------------- MODULE Spec2Model ----------------------------
(***************************************************************************)
(* Model of the hangman MCP server (src/mcp_servers/hangman_mcp.py): the   *)
(* session registry game_sessions, the GameState dataclass and the five    *)
(* tool handlers.  A string is modelled as a sequence of one-character     *)
(* strings, so that upper(), strip(), len() and ' '.join are computed.     *)
(***************************************************************************)
EXTENDS Integers, Sequences, FiniteSets, TLC

\* game_sessions: the module-level dict, session id -> GameState.
\* calls: the _make_guess calls that have been entered and whose result has
\*     not been collected, each with its locals and its position; empty
\*     whenever the tools are called one after the other.
\* guess_field: the GameState field current_guess, session id -> letter,
\*     for the sessions a call in `calls` has written it for.
VARIABLES game_sessions, calls, guess_field

vars == <<game_sessions, calls, guess_field>>

(***************************************************************************)
(* Bounds and input alphabets.                                             *)
(***************************************************************************)

\* Longest raw string handed to make_guess, apart from the single letters.
MaxInputLen == 2

\* The uppercase letters the model plays with, in alphabetical order (the
\* order sorted() uses).  Ten of them are outside the word CAT and nine
\* outside PANDA, so that a game can be lost and a further wrong letter is
\* still left to submit.
AlphabetSeq ==
    <<"A", "B", "C", "D", "E", "F", "G", "H", "I", "N", "P", "S", "T">>

Letters == {AlphabetSeq[i] : i \in 1..Len(AlphabetSeq)}

\* str.upper() on the lowercase characters of the model; every other
\* character of the model is its own uppercase.
UpperOf == ("a" :> "A") @@ ("t" :> "T")

\* Characters of the longer raw inputs: a lowercase letter and a blank.
PadChars == {"a", " "}

RECURSIVE SeqsUpTo(_, _)
SeqsUpTo(S, n) ==
    IF n = 0 THEN {<<>>}
    ELSE LET shorter == SeqsUpTo(S, n - 1)
         IN  shorter \cup
             {Append(s, c) : s \in {u \in shorter : Len(u) = n - 1}, c \in S}

\* Raw `letter` arguments of make_guess: every single letter, a lowercase
\* letter, a digit, a symbol, and the strings over PadChars up to
\* MaxInputLen (the empty string among them).
Inputs ==
    {<<c>> : c \in Letters \cup {"t", "1", "-"}}
        \cup SeqsUpTo(PadChars, MaxInputLen)

SessionIds == {"default"}

Players == {"Alice", "Bob"}

(***************************************************************************)
(* Static tables.                                                          *)
(***************************************************************************)

\* len(get_hangman_images()): the ten drawing stages.
NumImages == 10

\* get_hangman_images()[idx]: a stage is named by its index; an index past
\* the end of the tuple raises IndexError, modelled as -1.
hangman_image(idx) == IF idx \in 0..(NumImages - 1) THEN idx ELSE -1

\* get_word_list(): two words of the 'animals' category, uppercased: a
\* shortest one and one with a letter that occurs twice.
Words == {<<"C", "A", "T">>, <<"P", "A", "N", "D", "A">>}

(***************************************************************************)
(* Python string helpers.                                                  *)
(***************************************************************************)

\* str.upper()
str_upper(s) ==
    [i \in 1..Len(s) |-> IF s[i] \in DOMAIN UpperOf THEN UpperOf[s[i]] ELSE s[i]]

\* str.strip(): leading and trailing whitespace removed.
RECURSIVE str_lstrip(_)
str_lstrip(s) ==
    IF s # <<>> /\ Head(s) = " " THEN str_lstrip(Tail(s)) ELSE s

RECURSIVE str_rstrip(_)
str_rstrip(s) ==
    IF s # <<>> /\ s[Len(s)] = " " THEN str_rstrip(SubSeq(s, 1, Len(s) - 1)) ELSE s

str_strip(s) == str_rstrip(str_lstrip(s))

\* str.isalpha(): non-empty and every character alphabetic.
str_isalpha(s) ==
    s # <<>> /\ \A i \in 1..Len(s) : s[i] \in Letters \cup DOMAIN UpperOf

\* set(word)
set_of(s) == {s[i] : i \in 1..Len(s)}

\* sorted(list(S)) for a set of letters.
sorted_list(S) == SelectSeq(AlphabetSeq, LAMBDA c : c \in S)

\* ' '.join(parts)
RECURSIVE str_join(_)
str_join(parts) ==
    IF parts = <<>> THEN <<>>
    ELSE IF Len(parts) = 1 THEN <<parts[1]>>
    ELSE <<parts[1], " ">> \o str_join(Tail(parts))

(***************************************************************************)
(* class GameState.  The field current_guess is written by _make_guess     *)
(* (line 304) before its only reads (lines 174 and 182) in the same call,  *)
(* so it is the second argument of update_state_on_guess and update_puzzle *)
(* and is not kept between calls.                                          *)
(***************************************************************************)

\* GameState(): the dataclass defaults.
NewGameState ==
    [player_name |-> "", word |-> <<>>,
     guesses |-> {}, remaining_letters |-> {}, puzzle |-> <<>>,
     image_idx |-> 0, is_active |-> FALSE]

initialize_game_state(gs) ==
    [gs EXCEPT !.remaining_letters = set_of(gs.word),
               !.puzzle = [i \in 1..Len(gs.word) |->
                              [character |-> gs.word[i], guessed |-> FALSE]],
               !.is_active = TRUE]

\* Variant: the puzzle is rebuilt from the current guess alone.
update_puzzle_rebuilt(gs, current_guess) ==
    [gs EXCEPT !.puzzle =
        [i \in 1..Len(gs.puzzle) |->
            [character |-> gs.puzzle[i].character,
             guessed |-> gs.puzzle[i].character = current_guess]]]

\* Variant: only the first matching position is revealed.
update_puzzle_first_match(gs, current_guess) ==
    [gs EXCEPT !.puzzle =
        [i \in 1..Len(gs.puzzle) |->
            [character |-> gs.puzzle[i].character,
             guessed |-> gs.puzzle[i].guessed
                         \/ (/\ gs.puzzle[i].character = current_guess
                             /\ \A j \in 1..(i - 1) :
                                    gs.puzzle[j].character # current_guess)]]]

update_puzzle(gs, current_guess) ==
    [gs EXCEPT !.puzzle =
        [i \in 1..Len(gs.puzzle) |->
            [character |-> gs.puzzle[i].character,
             guessed |-> gs.puzzle[i].guessed
                         \/ gs.puzzle[i].character = current_guess]]]

\* Variant: the KeyError is swallowed and the stage is left alone.
update_state_on_guess_pass(gs, current_guess) ==
    IF current_guess \in gs.remaining_letters
    THEN update_puzzle(
             [gs EXCEPT !.remaining_letters = @ \ {current_guess}],
             current_guess)
    ELSE gs

\* Variant: the stage is advanced on every guess, as with `finally`.
update_state_on_guess_finally(gs, current_guess) ==
    IF current_guess \in gs.remaining_letters
    THEN [update_puzzle(
              [gs EXCEPT !.remaining_letters = @ \ {current_guess}],
              current_guess) EXCEPT !.image_idx = @ + 1]
    ELSE [gs EXCEPT !.image_idx = @ + 1]

\* set.remove raises KeyError when the letter is absent: the except branch.
update_state_on_guess(gs, current_guess) ==
    IF current_guess \in gs.remaining_letters
    THEN update_puzzle(
             [gs EXCEPT !.remaining_letters = @ \ {current_guess}],
             current_guess)
    ELSE [gs EXCEPT !.image_idx = @ + 1]

\* Variant: one letter early.
is_game_won_early(gs) == Cardinality(gs.remaining_letters) <= 1

is_game_won(gs) == Cardinality(gs.remaining_letters) = 0

\* Variants: a strict comparison; the table's length instead of its last
\* index; one stage early.
is_game_lost_strict(gs) == gs.image_idx > NumImages - 1

is_game_lost_len(gs) == gs.image_idx >= NumImages

is_game_lost_early(gs) == gs.image_idx >= NumImages - 2

is_game_lost(gs) == gs.image_idx >= NumImages - 1

is_game_over(gs) == is_game_won(gs) \/ is_game_lost(gs)

\* Variant: the test is inverted.
get_display_word_flipped(gs) ==
    str_join([i \in 1..Len(gs.puzzle) |->
                 IF gs.puzzle[i].guessed THEN "_" ELSE gs.puzzle[i].character])

get_display_word(gs) ==
    str_join([i \in 1..Len(gs.puzzle) |->
                 IF gs.puzzle[i].guessed THEN gs.puzzle[i].character ELSE "_"])

\* Variant: the stage counter survives the reset.
reset_game_keep_stage(gs) ==
    [gs EXCEPT !.word = <<>>, !.guesses = {},
               !.remaining_letters = {}, !.puzzle = <<>>,
               !.is_active = FALSE]

reset_game(gs) ==
    [gs EXCEPT !.word = <<>>, !.guesses = {},
               !.remaining_letters = {}, !.puzzle = <<>>, !.image_idx = 0,
               !.is_active = FALSE]

(***************************************************************************)
(* get_secret_word(): a word of the list, or RuntimeError.  With the       *)
(* built-in list the call does not raise; the failure outcome stands for   *)
(* the word source failing (lines 144-145 and 150), which the handler      *)
(* catches.                                                                *)
(***************************************************************************)
SecretWordOutcomes ==
    {[raised |-> FALSE, word |-> w] : w \in Words}
        \cup {[raised |-> TRUE, word |-> <<>>]}

(***************************************************************************)
(* Tool handlers.  Each is an operator from the registry and the call's    *)
(* arguments to the registry after the call and the dict returned.  A      *)
(* message is its text with the interpolated values in the fields          *)
(* message_player, message_word and message_letter.                        *)
(***************************************************************************)

\* Variant: the word is drawn before the GameState is reset, so a failed
\* draw leaves the GameState as it was.
start_hangman_game_draw_first(sessions, player_name, session_id, secret) ==
    LET created == IF session_id \in DOMAIN sessions
                   THEN sessions
                   ELSE sessions @@ (session_id :> NewGameState)
        named == [reset_game(created[session_id]) EXCEPT
                      !.player_name = player_name]
        game_state == initialize_game_state([named EXCEPT !.word = secret.word])
    IN  IF secret.raised
        THEN [sessions |-> created,
              response |-> [status |-> "error",
                            message |-> "Failed to start game: RuntimeError"]]
        ELSE [sessions |-> [created EXCEPT ![session_id] = game_state],
              response |-> [status |-> "success",
                            message |-> "New game started for the player!",
                            message_player |-> player_name,
                            word_length |-> Len(game_state.word),
                            display_word |-> get_display_word(game_state),
                            hangman_image |-> hangman_image(0),
                            guesses_remaining |-> NumImages - 1,
                            session_id |-> session_id]]

\* _start_hangman_game; `secret` is what get_secret_word() does in this call.
start_hangman_game(sessions, player_name, session_id, secret) ==
    LET created == IF session_id \in DOMAIN sessions
                   THEN sessions
                   ELSE sessions @@ (session_id :> NewGameState)
        named == [reset_game(created[session_id]) EXCEPT
                      !.player_name = player_name]
        game_state == initialize_game_state([named EXCEPT !.word = secret.word])
    IN  IF secret.raised
        THEN [sessions |-> [created EXCEPT ![session_id] = named],
              response |-> [status |-> "error",
                            message |-> "Failed to start game: RuntimeError"]]
        ELSE [sessions |-> [created EXCEPT ![session_id] = game_state],
              response |-> [status |-> "success",
                            message |-> "New game started for the player!",
                            message_player |-> player_name,
                            word_length |-> Len(game_state.word),
                            display_word |-> get_display_word(game_state),
                            hangman_image |-> hangman_image(0),
                            guesses_remaining |-> NumImages - 1,
                            session_id |-> session_id]]

\* Variants: a loss does not end the game; the letter is not recorded.
process_guess_loss_stays_active(gs, letter) ==
    LET updated == update_state_on_guess(
                       [gs EXCEPT !.guesses = @ \cup {letter}], letter)
    IN  IF is_game_won(updated)
        THEN [updated EXCEPT !.is_active = FALSE]
        ELSE updated

process_guess_not_recorded(gs, letter) ==
    LET updated == update_state_on_guess(gs, letter)
    IN  IF is_game_won(updated) \/ is_game_lost(updated)
        THEN [updated EXCEPT !.is_active = FALSE]
        ELSE updated

\* The state part of _make_guess for an accepted letter (lines 303-307 and
\* the is_active updates of lines 320-334).
process_guess(gs, letter) ==
    LET updated == update_state_on_guess(
                       [gs EXCEPT !.guesses = @ \cup {letter}], letter)
    IN  IF is_game_won(updated) \/ is_game_lost(updated)
        THEN [updated EXCEPT !.is_active = FALSE]
        ELSE updated

\* The dict built from the state the update left (lines 306, 310-342).
response_after(updated, letter) ==
    LET is_correct == letter \in set_of(updated.word)
        base == [status |-> "success",
                 letter |-> letter,
                 correct |-> is_correct,
                 display_word |-> get_display_word(updated),
                 hangman_image |-> hangman_image(updated.image_idx),
                 guesses_made |-> sorted_list(updated.guesses),
                 guesses_remaining |-> NumImages - 1 - updated.image_idx]
    IN  IF is_game_won(updated)
        THEN base @@ [game_over |-> TRUE, won |-> TRUE,
                      message |-> "Congratulations! You won!",
                      message_player |-> updated.player_name,
                      message_word |-> updated.word]
        ELSE IF is_game_lost(updated)
        THEN base @@ [game_over |-> TRUE, won |-> FALSE,
                      message |-> "Game over! Better luck next time!",
                      message_player |-> updated.player_name,
                      message_word |-> updated.word]
        ELSE base @@ [game_over |-> FALSE,
                      message |-> IF is_correct
                                  THEN "Good guess! The letter is in the word."
                                  ELSE "Sorry, the letter is not in the word.",
                      message_letter |-> letter]

\* The dict _make_guess returns for an accepted letter.
guess_response(gs, letter) ==
    response_after(update_state_on_guess(
                       [gs EXCEPT !.guesses = @ \cup {letter}], letter),
                   letter)

\* Variant: the case is not folded.
normalize_no_upper(raw_letter) == str_strip(raw_letter)

\* letter.upper().strip() (line 290)
normalize(raw_letter) == str_strip(str_upper(raw_letter))

\* Variant: only the length is tested.
valid_letter_any_char(letter) == Len(letter) = 1

\* The input test of line 291, negated: exactly one alphabetic character.
valid_letter(letter) == Len(letter) = 1 /\ str_isalpha(letter)

\* _make_guess
make_guess(sessions, raw_letter, session_id) ==
    LET game_state == sessions[session_id]
        letter == normalize(raw_letter)
    IN  IF session_id \notin DOMAIN sessions
        THEN [sessions |-> sessions,
              response |-> [status |-> "error",
                            message |-> "No active game found. Start a new game first."]]
        ELSE IF ~game_state.is_active
        THEN [sessions |-> sessions,
              response |-> [status |-> "error",
                            message |-> "No active game. Start a new game first."]]
        ELSE IF is_game_over(game_state)
        THEN [sessions |-> sessions,
              response |-> [status |-> "error",
                            message |-> "Game is already over. Start a new game."]]
        ELSE IF ~valid_letter(letter)
        THEN [sessions |-> sessions,
              response |-> [status |-> "error",
                            message |-> "Please provide exactly one letter."]]
        ELSE IF letter[1] \in game_state.guesses
        THEN [sessions |-> sessions,
              response |-> [status |-> "error",
                            message |-> "You've already guessed the letter. Try a different letter.",
                            message_letter |-> letter[1]]]
        ELSE [sessions |-> [sessions EXCEPT
                               ![session_id] = process_guess(game_state, letter[1])],
              response |-> guess_response(game_state, letter[1])]

\* Variant: the lookup creates the entry, as with setdefault.
get_game_status_creating(sessions, session_id) ==
    IF session_id \notin DOMAIN sessions
    THEN [sessions |-> sessions @@ (session_id :> NewGameState),
          response |-> [status |-> "no_game",
                        message |-> "No game session found. Start a new game first."]]
    ELSE [sessions |-> sessions,
          response |-> [status |-> "finished"]]

\* _get_game_status; it assigns nothing, so the registry comes back as found.
get_game_status(sessions, session_id) ==
    LET game_state == sessions[session_id]
    IN  [sessions |-> sessions,
         response |->
            IF session_id \notin DOMAIN sessions
            THEN [status |-> "no_game",
                  message |-> "No game session found. Start a new game first."]
            ELSE IF ~game_state.is_active /\ ~is_game_over(game_state)
            THEN [status |-> "no_active_game",
                  message |-> "No active game. Start a new game first."]
            ELSE [status |-> IF game_state.is_active THEN "active" ELSE "finished",
                  player_name |-> game_state.player_name,
                  word_length |-> Len(game_state.word),
                  display_word |-> get_display_word(game_state),
                  hangman_image |-> hangman_image(game_state.image_idx),
                  guesses_made |-> sorted_list(game_state.guesses),
                  guesses_remaining |-> NumImages - 1 - game_state.image_idx,
                  game_over |-> is_game_over(game_state),
                  won |-> IF is_game_over(game_state)
                          THEN IF is_game_won(game_state) THEN "True" ELSE "False"
                          ELSE "None",
                  session_id |-> session_id]]

\* _list_active_sessions; the dict's iteration order is the insertion order,
\* modelled as the set of the per-session summaries.
list_active_sessions(sessions) ==
    LET summaries ==
            {[session_id |-> s,
              player_name |-> sessions[s].player_name,
              active |-> sessions[s].is_active,
              word_length |-> Len(sessions[s].word),
              guesses_made |-> Cardinality(sessions[s].guesses),
              game_over |-> is_game_over(sessions[s])] : s \in DOMAIN sessions}
    IN  [status |-> "success",
         sessions |-> summaries,
         total_sessions |-> Cardinality(summaries)]

\* Variant: the entry is not deleted.
end_game_keep(sessions, session_id) ==
    IF session_id \notin DOMAIN sessions
    THEN [sessions |-> sessions,
          response |-> [status |-> "error",
                        message |-> "No game session found."]]
    ELSE [sessions |-> sessions,
          response |-> [status |-> "success",
                        message |-> "Game ended. Thanks for playing!",
                        message_player |-> sessions[session_id].player_name,
                        message_word |-> sessions[session_id].word]]

\* Variant: only a game in play can be ended.
end_game_active_only(sessions, session_id) ==
    IF session_id \notin DOMAIN sessions \/ ~sessions[session_id].is_active
    THEN [sessions |-> sessions,
          response |-> [status |-> "error",
                        message |-> "No game session found."]]
    ELSE [sessions |-> [o \in DOMAIN sessions \ {session_id} |-> sessions[o]],
          response |-> [status |-> "success",
                        message |-> "Game ended. Thanks for playing!",
                        message_player |-> sessions[session_id].player_name,
                        message_word |-> sessions[session_id].word]]

\* Variant: the whole registry is emptied.
end_game_clear(sessions, session_id) ==
    IF session_id \notin DOMAIN sessions
    THEN [sessions |-> sessions,
          response |-> [status |-> "error",
                        message |-> "No game session found."]]
    ELSE [sessions |-> <<>>,
          response |-> [status |-> "success",
                        message |-> "Game ended. Thanks for playing!",
                        message_player |-> sessions[session_id].player_name,
                        message_word |-> sessions[session_id].word]]

\* _end_game
end_game(sessions, session_id) ==
    IF session_id \notin DOMAIN sessions
    THEN [sessions |-> sessions,
          response |-> [status |-> "error",
                        message |-> "No game session found."]]
    ELSE [sessions |-> [s \in DOMAIN sessions \ {session_id} |-> sessions[s]],
          response |-> [status |-> "success",
                        message |-> "Game ended. Thanks for playing!",
                        message_player |-> sessions[session_id].player_name,
                        message_word |-> sessions[session_id].word]]

(***************************************************************************)
(* The server: one action per tool call.  The registry is the only state   *)
(* that outlives a call; the dict a call returns is the `response` of the  *)
(* handler operator applied to the registry the call found.                *)
(***************************************************************************)

\* game_sessions = {} at import; no call has been made.
Init ==
    /\ game_sessions = <<>>
    /\ calls = <<>>
    /\ guess_field = <<>>

StartGame(player_name, session_id, secret) ==
    /\ game_sessions' =
           start_hangman_game(game_sessions, player_name, session_id, secret).sessions
    /\ UNCHANGED <<calls, guess_field>>

MakeGuess(raw_letter, session_id) ==
    /\ game_sessions' = make_guess(game_sessions, raw_letter, session_id).sessions
    /\ UNCHANGED <<calls, guess_field>>

GetGameStatus(session_id) ==
    /\ game_sessions' = get_game_status(game_sessions, session_id).sessions
    /\ UNCHANGED <<calls, guess_field>>

\* _list_active_sessions only reads.
ListActiveSessions ==
    /\ list_active_sessions(game_sessions).status = "success"
    /\ UNCHANGED <<game_sessions, calls, guess_field>>

EndGame(session_id) ==
    /\ game_sessions' = end_game(game_sessions, session_id).sessions
    /\ UNCHANGED <<calls, guess_field>>

Next ==
    \/ \E p \in Players, s \in SessionIds, w \in SecretWordOutcomes :
           StartGame(p, s, w)
    \/ \E l \in Inputs, s \in SessionIds : MakeGuess(l, s)
    \/ \E s \in SessionIds : GetGameStatus(s)
    \/ ListActiveSessions
    \/ \E s \in SessionIds : EndGame(s)

Spec == Init /\ [][Next]_vars

(***************************************************************************)
(* The same server with one player: the player's name is copied into the   *)
(* GameState and into messages and decides nothing else.                   *)
(***************************************************************************)
OnePlayer == {"Alice"}

NextOnePlayer ==
    \/ \E p \in OnePlayer, s \in SessionIds, w \in SecretWordOutcomes :
           StartGame(p, s, w)
    \/ \E l \in Inputs, s \in SessionIds : MakeGuess(l, s)
    \/ \E s \in SessionIds : GetGameStatus(s)
    \/ ListActiveSessions
    \/ \E s \in SessionIds : EndGame(s)

SpecOnePlayer == Init /\ [][NextOnePlayer]_vars

(***************************************************************************)
(* A game played through: a game is started or ended only while no game is *)
(* in play under the id, and the player keeps submitting letters not yet   *)
(* guessed, which is the weak fairness of the accepted guess.              *)
(***************************************************************************)
InPlay(session_id) ==
    /\ session_id \in DOMAIN game_sessions
    /\ game_sessions[session_id].is_active

StartNewGame(player_name, session_id, secret) ==
    /\ ~InPlay(session_id)
    /\ StartGame(player_name, session_id, secret)

\* A guess of a letter not yet guessed, on a game in play: it passes every
\* check of lines 269-301, and lines 303-334 process it.
GuessNewLetter(c, session_id) ==
    /\ InPlay(session_id)
    /\ c \notin game_sessions[session_id].guesses
    /\ game_sessions' =
           [game_sessions EXCEPT ![session_id] = process_guess(@, c)]
    /\ UNCHANGED <<calls, guess_field>>

EndFinishedGame(session_id) ==
    /\ ~InPlay(session_id)
    /\ EndGame(session_id)

NextPlay ==
    \/ \E p \in OnePlayer, s \in SessionIds, w \in SecretWordOutcomes :
           StartNewGame(p, s, w)
    \/ \E l \in Inputs, s \in SessionIds : MakeGuess(l, s)
    \/ \E s \in SessionIds : GetGameStatus(s)
    \/ ListActiveSessions
    \/ \E s \in SessionIds : EndFinishedGame(s)

SpecPlay ==
    /\ Init
    /\ [][NextPlay]_vars
    /\ WF_vars(\E c \in Letters, s \in SessionIds : GuessNewLetter(c, s))

(***************************************************************************)
(* The same server called under two session ids, with a few letters.       *)
(***************************************************************************)
TwoSessionIds == {"default", "other"}

SessionInputs == {<<"A">>, <<"C">>, <<"T">>, <<"B">>, <<"a">>, <<"1">>}

NextSessions ==
    \/ \E p \in Players, s \in TwoSessionIds, w \in SecretWordOutcomes :
           StartGame(p, s, w)
    \/ \E l \in SessionInputs, s \in TwoSessionIds : MakeGuess(l, s)
    \/ \E s \in TwoSessionIds : GetGameStatus(s)
    \/ ListActiveSessions
    \/ \E s \in TwoSessionIds : EndGame(s)

SpecSessions == Init /\ [][NextSessions]_vars

(***************************************************************************)
(* Two make_guess calls in flight at once.  The handlers are plain         *)
(* functions on the shared dict and the shared GameState objects and take  *)
(* no lock, so when the host runs two calls at the same time a call can be *)
(* overtaken between any two of its statements.  A call is cut into four   *)
(* steps, each of which runs without interruption: the checks (lines       *)
(* 269-301), the recording of the letter (lines 304-305), the update       *)
(* (line 307, which reads the field current_guess) and the building of the *)
(* result with the is_active update (lines 306, 310-342).  The code allows *)
(* every interleaving of these steps and finer ones besides.               *)
(***************************************************************************)
CallIds == {1, 2}

ConcurrentInputs == {<<"A">>, <<"C">>, <<"B">>, <<"a">>}

Pending == [status |-> "pending"]

\* A game is started while no guess is in flight.
StartWhenIdle(player_name, session_id, secret) ==
    /\ calls = <<>>
    /\ StartGame(player_name, session_id, secret)

\* Lines 269-301: a call that fails a check returns at once.
BeginGuess(c, raw_letter, session_id) ==
    LET checked == make_guess(game_sessions, raw_letter, session_id).response
        rejected == checked.status = "error"
    IN  /\ c \notin DOMAIN calls
        /\ calls' = calls @@
               (c :> [session_id |-> session_id,
                      raw_letter |-> raw_letter,
                      letter |-> IF rejected THEN ""
                                 ELSE normalize(raw_letter)[1],
                      pc |-> IF rejected THEN "done" ELSE "record",
                      response |-> IF rejected THEN checked ELSE Pending,
                      entry |-> game_sessions,
                      first |-> calls = <<>>])
        /\ UNCHANGED <<game_sessions, guess_field>>

\* Lines 304-305.
RecordGuess(c) ==
    /\ c \in DOMAIN calls
    /\ calls[c].pc = "record"
    /\ guess_field' = (calls[c].session_id :> calls[c].letter) @@ guess_field
    /\ game_sessions' =
           [game_sessions EXCEPT
               ![calls[c].session_id].guesses = @ \cup {calls[c].letter}]
    /\ calls' = [calls EXCEPT ![c].pc = "update"]

\* Line 307: update_state_on_guess() works on self.current_guess.
UpdateState(c) ==
    /\ c \in DOMAIN calls
    /\ calls[c].pc = "update"
    /\ game_sessions' =
           [game_sessions EXCEPT
               ![calls[c].session_id] =
                   update_state_on_guess(@, guess_field[calls[c].session_id])]
    /\ calls' = [calls EXCEPT ![c].pc = "respond"]
    /\ UNCHANGED guess_field

\* Lines 306, 310-342.  get_hangman_images()[image_idx] raises IndexError
\* beyond the last image, and the call ends there.
Respond(c) ==
    /\ c \in DOMAIN calls
    /\ calls[c].pc = "respond"
    /\ LET s == calls[c].session_id
           gs == game_sessions[s]
       IN  IF hangman_image(gs.image_idx) = -1
           THEN /\ calls' = [calls EXCEPT
                                ![c].pc = "done",
                                ![c].response = [status |-> "raised",
                                                 message |-> "IndexError"]]
                /\ UNCHANGED game_sessions
           ELSE /\ calls' = [calls EXCEPT
                                ![c].pc = "done",
                                ![c].response = response_after(gs, calls[c].letter)]
                /\ game_sessions' =
                       [game_sessions EXCEPT
                           ![s].is_active =
                               IF is_game_won(gs) \/ is_game_lost(gs)
                               THEN FALSE ELSE @]
    /\ UNCHANGED guess_field

\* Both results have been delivered.
Collect ==
    /\ calls # <<>>
    /\ \A c \in DOMAIN calls : calls[c].pc = "done"
    /\ calls' = <<>>
    /\ guess_field' = <<>>
    /\ UNCHANGED game_sessions

NextConcurrent ==
    \/ \E p \in Players, s \in SessionIds, w \in SecretWordOutcomes :
           StartWhenIdle(p, s, w)
    \/ \E c \in CallIds, l \in ConcurrentInputs, s \in SessionIds :
           BeginGuess(c, l, s)
    \/ \E c \in CallIds : RecordGuess(c)
    \/ \E c \in CallIds : UpdateState(c)
    \/ \E c \in CallIds : Respond(c)
    \/ Collect

SpecConcurrent == Init /\ [][NextConcurrent]_vars

(***************************************************************************)
(* Vocabulary of the properties, in the terms of the data model:           *)
(* guessedLetters = guesses, revealedMask = the guessed flags of puzzle,   *)
(* missCount = image_idx, secretWord = word.                               *)
(***************************************************************************)
MaxMisses == NumImages - 1

AllRevealed(gs) == \A i \in 1..Len(gs.puzzle) : gs.puzzle[i].guessed

Started(gs) == gs.word # <<>>

GameWon(gs) == Started(gs) /\ set_of(gs.word) \subseteq gs.guesses

GameLost(gs) == Started(gs) /\ gs.image_idx >= MaxMisses

\* The normalized form of a raw input: uppercased, whitespace-trimmed.
NormalForm(raw) == str_strip(str_upper(raw))

\* The raw input is one letter, after normalization.
OneLetter(raw) == Len(NormalForm(raw)) = 1 /\ NormalForm(raw)[1] \in Letters

\* A guess the game accepts: active game, one letter, not guessed before.
Accepted(gs, raw) ==
    /\ gs.is_active
    /\ OneLetter(raw)
    /\ NormalForm(raw)[1] \notin gs.guesses

Mask(gs) == [i \in 1..Len(gs.puzzle) |-> gs.puzzle[i].guessed]

\* Some position flips from hidden to revealed and none flips back.
Reveals(before, after) ==
    /\ Len(after.puzzle) = Len(before.puzzle)
    /\ \E i \in 1..Len(before.puzzle) : ~Mask(before)[i] /\ Mask(after)[i]
    /\ \A i \in 1..Len(before.puzzle) : Mask(before)[i] => Mask(after)[i]

NoActiveGameFound == "No active game found. Start a new game first."

NoActiveGame == "No active game. Start a new game first."

GameAlreadyOver == "Game is already over. Start a new game."

InvalidGuess == "Please provide exactly one letter."

DuplicateGuess == "You've already guessed the letter. Try a different letter."

(***************************************************************************)
(* C1.  Once a session's game is won or lost, every guess on it, whatever  *)
(* the letter, returns an error result and changes nothing; the GameState  *)
(* of the session changes only by start_game or end_game.                  *)
(***************************************************************************)
C1_FrozenOnceOver ==
    /\ [](\A s \in DOMAIN game_sessions :
              (GameWon(game_sessions[s]) \/ GameLost(game_sessions[s])) =>
                  \A l \in Inputs :
                      LET r == make_guess(game_sessions, l, s)
                      IN  /\ r.response.status = "error"
                          /\ r.sessions = game_sessions)
    /\ [][\A s \in DOMAIN game_sessions :
              (/\ GameWon(game_sessions[s]) \/ GameLost(game_sessions[s])
               /\ ~\E p \in Players, w \in SecretWordOutcomes : StartGame(p, s, w)
               /\ ~EndGame(s))
                  => UNCHANGED game_sessions]_vars

\* A lost game on which a guess with a letter not yet guessed is refused.
C1_Witness ==
    \E s \in DOMAIN game_sessions :
        /\ GameLost(game_sessions[s])
        /\ "A" \notin game_sessions[s].guesses
        /\ make_guess(game_sessions, <<"A">>, s).response.status = "error"

(***************************************************************************)
(* C2.  A guess on a session whose game was won or lost and not yet ended  *)
(* fails with the 'game is already over' result, which is not the result   *)
(* returned when no GameState exists for the session id.                   *)
(***************************************************************************)
C2_GuessAfterOverIsGameAlreadyOver ==
    \A s \in DOMAIN game_sessions :
        (/\ GameWon(game_sessions[s]) \/ GameLost(game_sessions[s])
         /\ ~game_sessions[s].is_active) =>
            \A l \in Inputs :
                LET message == make_guess(game_sessions, l, s).response.message
                IN  message = GameAlreadyOver /\ message # NoActiveGameFound

(***************************************************************************)
(* C3.  For every session of the registry and every position i of the      *)
(* secret word, revealedMask[i] is true iff secretWord[i] is in            *)
(* guessedLetters.                                                         *)
(***************************************************************************)
C3_MaskMatchesGuesses ==
    \A s \in DOMAIN game_sessions :
        LET gs == game_sessions[s]
        IN  /\ Len(gs.puzzle) = Len(gs.word)
            /\ \A i \in 1..Len(gs.word) :
                   /\ gs.puzzle[i].character = gs.word[i]
                   /\ gs.puzzle[i].guessed <=> (gs.word[i] \in gs.guesses)

\* A letter that occurs twice is revealed at both places, after a miss,
\* while another position is still hidden.
C3_Witness ==
    \E s \in DOMAIN game_sessions :
        LET gs == game_sessions[s]
        IN  /\ gs.word = <<"P", "A", "N", "D", "A">>
            /\ gs.guesses = {"A", "B"}
            /\ Mask(gs) = <<FALSE, TRUE, FALSE, FALSE, TRUE>>

(***************************************************************************)
(* C4.  missCount of every session of the registry is in 0..9, so the      *)
(* drawing stage is an index of the ten-stage table and guessesRemaining   *)
(* is never negative.                                                      *)
(***************************************************************************)
C4_MissCountInRange ==
    \A s \in DOMAIN game_sessions :
        LET gs == game_sessions[s]
        IN  /\ gs.image_idx \in 0..9
            /\ hangman_image(gs.image_idx) = gs.image_idx
            /\ NumImages - 1 - gs.image_idx >= 0

\* Nine misses, with a letter outside the word still left to submit.
C4_Witness ==
    \E s \in DOMAIN game_sessions :
        LET gs == game_sessions[s]
        IN  /\ gs.image_idx = 9
            /\ \E c \in Letters : c \notin gs.guesses /\ c \notin set_of(gs.word)

(***************************************************************************)
(* C5.  Every accepted guess (active game, one alphabetic letter not       *)
(* guessed before) has exactly one of two effects: missCount grows by one  *)
(* with revealedMask unchanged, or at least one position of revealedMask   *)
(* flips to true with missCount unchanged.  The 'correct' flag of the      *)
(* result is true exactly in the second case.                              *)
(***************************************************************************)
C5_MissOrReveal ==
    \A s \in DOMAIN game_sessions :
        \A l \in Inputs :
            Accepted(game_sessions[s], l) =>
                LET before == game_sessions[s]
                    r == make_guess(game_sessions, l, s)
                    after == r.sessions[s]
                    miss == /\ after.image_idx = before.image_idx + 1
                            /\ Mask(after) = Mask(before)
                    reveal == /\ Reveals(before, after)
                              /\ after.image_idx = before.image_idx
                IN  /\ r.response.status = "success"
                    /\ miss \/ reveal
                    /\ ~(miss /\ reveal)
                    /\ r.response.correct <=> reveal

\* An active game that has had a miss and a reveal, with guesses of both
\* kinds still to come.
C5_Witness ==
    \E s \in DOMAIN game_sessions :
        LET gs == game_sessions[s]
        IN  /\ gs.is_active
            /\ gs.image_idx = 1
            /\ \E i \in 1..Len(gs.puzzle) : gs.puzzle[i].guessed
            /\ make_guess(game_sessions, <<"A">>, s).response.status = "success"
            /\ make_guess(game_sessions, <<"A">>, s).response.correct
            /\ make_guess(game_sessions, <<"B">>, s).response.status = "success"
            /\ ~make_guess(game_sessions, <<"B">>, s).response.correct

(***************************************************************************)
(* C6.  A guess result declares a win (game_over true, won true) iff every *)
(* position of revealedMask is true after the guess, that is, every letter *)
(* of secretWord is in guessedLetters; the win test of the code (no        *)
(* remaining letter) agrees with that in every state of a started game;    *)
(* and a declared win makes the game inactive.                             *)
(***************************************************************************)
C6_WinIffAllRevealed ==
    \A s \in DOMAIN game_sessions :
        LET gs == game_sessions[s]
        IN  /\ Started(gs) =>
                   /\ is_game_won(gs) <=> AllRevealed(gs)
                   /\ AllRevealed(gs) <=> (set_of(gs.word) \subseteq gs.guesses)
            /\ \A l \in Inputs :
                   Accepted(gs, l) =>
                       LET r == make_guess(game_sessions, l, s)
                           after == r.sessions[s]
                           declared == r.response.game_over /\ r.response.won
                       IN  /\ declared <=> AllRevealed(after)
                           /\ declared <=> GameWon(after)
                           /\ declared => ~after.is_active

\* A game won after a miss.
C6_Witness ==
    \E s \in DOMAIN game_sessions :
        LET gs == game_sessions[s]
        IN  /\ Started(gs)
            /\ AllRevealed(gs)
            /\ ~gs.is_active
            /\ gs.image_idx = 1

(***************************************************************************)
(* C7.  A guess result declares a loss (game_over true, won false, drawing *)
(* stage 9) iff the guess is the incorrect guess that brings missCount to  *)
(* exactly 9; with fewer misses and the word not complete the game is      *)
(* still active; and a declared loss makes the game inactive.              *)
(***************************************************************************)
C7_LossIffNinthMiss ==
    \A s \in DOMAIN game_sessions :
        \A l \in Inputs :
            Accepted(game_sessions[s], l) =>
                LET r == make_guess(game_sessions, l, s)
                    after == r.sessions[s]
                    declared == r.response.game_over /\ ~r.response.won
                IN  /\ declared <=> (~r.response.correct /\ after.image_idx = 9)
                    /\ declared =>
                           /\ r.response.hangman_image = 9
                           /\ r.response.guesses_remaining = 0
                           /\ ~after.is_active
                    /\ (after.image_idx < 9 /\ ~AllRevealed(after)) =>
                           /\ after.is_active
                           /\ ~r.response.game_over

\* A game lost with part of the word revealed on the way.
C7_Witness ==
    \E s \in DOMAIN game_sessions :
        LET gs == game_sessions[s]
        IN  /\ Started(gs)
            /\ gs.image_idx = 9
            /\ ~gs.is_active
            /\ ~AllRevealed(gs)
            /\ \E i \in 1..Len(gs.puzzle) : gs.puzzle[i].guessed

(***************************************************************************)
(* C8, as stated.  Submitting a letter whose normalized form (uppercased,  *)
(* trimmed) is already in guessedLetters never changes the GameState and   *)
(* always returns the DuplicateGuess error naming the letter.              *)
(***************************************************************************)
C8_DuplicateAlwaysDuplicateGuess ==
    \A s \in DOMAIN game_sessions :
        \A l \in Inputs :
            (OneLetter(l) /\ NormalForm(l)[1] \in game_sessions[s].guesses) =>
                LET r == make_guess(game_sessions, l, s)
                IN  /\ r.sessions = game_sessions
                    /\ r.response.status = "error"
                    /\ r.response.message = DuplicateGuess
                    /\ r.response.message_letter = NormalForm(l)[1]

(***************************************************************************)
(* C8, amended.  Submitting a letter whose normalized form is already in   *)
(* guessedLetters never changes the GameState and always returns an error; *)
(* on an active game it is the DuplicateGuess error naming the letter.     *)
(***************************************************************************)
C8_DuplicateOnActiveGame ==
    \A s \in DOMAIN game_sessions :
        \A l \in Inputs :
            (OneLetter(l) /\ NormalForm(l)[1] \in game_sessions[s].guesses) =>
                LET r == make_guess(game_sessions, l, s)
                IN  /\ r.sessions = game_sessions
                    /\ r.response.status = "error"
                    /\ game_sessions[s].is_active =>
                           /\ r.response.message = DuplicateGuess
                           /\ r.response.message_letter = NormalForm(l)[1]

\* An active game where "A" was guessed and the case variant "a", bare or
\* with a blank, is refused as a duplicate of "A".
C8_Witness ==
    \E s \in DOMAIN game_sessions :
        LET gs == game_sessions[s]
        IN  /\ gs.is_active
            /\ "A" \in gs.guesses
            /\ \A l \in {<<"a">>, <<" ", "a">>, <<"a", " ">>, <<"A">>} :
                   /\ make_guess(game_sessions, l, s).response.message
                          = DuplicateGuess
                   /\ make_guess(game_sessions, l, s).response.message_letter
                          = "A"

(***************************************************************************)
(* C9.  A guess on an active game whose normalized input is not exactly    *)
(* one alphabetic character (empty, several characters, a digit, a symbol) *)
(* fails with InvalidGuess and leaves the GameState unchanged.             *)
(***************************************************************************)
C9_InvalidGuessRejected ==
    \A s \in DOMAIN game_sessions :
        \A l \in Inputs :
            (game_sessions[s].is_active /\ ~OneLetter(l)) =>
                LET r == make_guess(game_sessions, l, s)
                IN  /\ r.response.status = "error"
                    /\ r.response.message = InvalidGuess
                    /\ r.sessions = game_sessions

\* An active game with guesses made where the empty string, a blank, two
\* letters, a digit and a symbol are each refused as invalid.
C9_Witness ==
    \E s \in DOMAIN game_sessions :
        LET gs == game_sessions[s]
        IN  /\ gs.is_active
            /\ gs.guesses # {}
            /\ \A l \in {<<>>, <<" ">>, <<"a", "a">>, <<"1">>, <<"-">>} :
                   /\ ~OneLetter(l)
                   /\ make_guess(game_sessions, l, s).response.message
                          = InvalidGuess

(***************************************************************************)
(* C10.  status on a session id that is in the registry but whose game was *)
(* never activated (after a start_game that failed in the word source)     *)
(* returns 'no_active_game', which differs from 'no_game' for an unknown   *)
(* id and from 'active' and 'finished' of a started game.                  *)
(***************************************************************************)
C10_NeverActivatedStatus ==
    \A s \in DOMAIN game_sessions :
        (~Started(game_sessions[s]) /\ ~game_sessions[s].is_active) =>
            get_game_status(game_sessions, s).response.status = "no_active_game"

(***************************************************************************)
(* C11.  An operation addressed to session id s (start_game, guess,        *)
(* status, end_game) leaves every other session id as it was: in or out of *)
(* the registry, and with the same GameState.                              *)
(***************************************************************************)
SameElsewhere(s, after) ==
    \A o \in TwoSessionIds \ {s} :
        /\ (o \in DOMAIN after) <=> (o \in DOMAIN game_sessions)
        /\ o \in DOMAIN game_sessions => after[o] = game_sessions[o]

C11_SessionsIndependent ==
    \A s \in TwoSessionIds :
        /\ \A p \in Players, w \in SecretWordOutcomes :
               SameElsewhere(s, start_hangman_game(game_sessions, p, s, w).sessions)
        /\ \A l \in SessionInputs :
               SameElsewhere(s, make_guess(game_sessions, l, s).sessions)
        /\ SameElsewhere(s, get_game_status(game_sessions, s).sessions)
        /\ SameElsewhere(s, end_game(game_sessions, s).sessions)

\* Two games side by side, one won and one in play with a miss, on which
\* an end_game acts.
C11_Witness ==
    /\ DOMAIN game_sessions = TwoSessionIds
    /\ GameWon(game_sessions["default"])
    /\ game_sessions["other"].is_active
    /\ game_sessions["other"].image_idx = 1
    /\ game_sessions["other"].word # game_sessions["default"].word
    /\ DOMAIN end_game(game_sessions, "default").sessions = {"other"}

(***************************************************************************)
(* C12.  A successful start_game for s, from whatever state s was in       *)
(* (absent, in play, won, lost, never activated), leaves s with a fresh    *)
(* game: no guessed letters, a mask of the word's length that is all       *)
(* false, no misses, active; the result reports 9 guesses remaining and    *)
(* drawing stage 0.                                                        *)
(***************************************************************************)
C12_StartGivesFreshGame ==
    \A s \in SessionIds, p \in Players, w \in Words :
        LET r == start_hangman_game(game_sessions, p, s,
                                    [raised |-> FALSE, word |-> w])
            gs == r.sessions[s]
        IN  /\ r.response.status = "success"
            /\ gs.word = w
            /\ gs.player_name = p
            /\ gs.guesses = {}
            /\ Mask(gs) = [i \in 1..Len(w) |-> FALSE]
            /\ gs.image_idx = 0
            /\ gs.is_active
            /\ r.response.guesses_remaining = 9
            /\ r.response.hangman_image = hangman_image(0)
            /\ r.response.word_length = Len(w)

\* A lost game on which start_game acts.
C12_Witness ==
    \E s \in DOMAIN game_sessions :
        /\ GameLost(game_sessions[s])
        /\ \E p \in Players, w \in Words :
               LET r == start_hangman_game(game_sessions, p, s,
                                           [raised |-> FALSE, word |-> w])
               IN  /\ r.response.status = "success"
                   /\ r.sessions[s].word # game_sessions[s].word

(***************************************************************************)
(* C13.  end_game on a session that start_game created, whatever guesses   *)
(* were made in between, removes it from the registry: a status call then  *)
(* reports no_game and every guess fails as having no game, and neither    *)
(* brings the session back.                                                *)
(***************************************************************************)
C13_EndRemovesSession ==
    \A s \in DOMAIN game_sessions :
        LET ended == end_game(game_sessions, s).sessions
        IN  /\ s \notin DOMAIN ended
            /\ get_game_status(ended, s).response.status = "no_game"
            /\ get_game_status(ended, s).sessions = ended
            /\ \A l \in SessionInputs :
                   make_guess(ended, l, s) =
                       [sessions |-> ended,
                        response |-> [status |-> "error",
                                      message |-> NoActiveGameFound]]

\* A game with a reveal and a miss on which end_game acts.
C13_Witness ==
    \E s \in DOMAIN game_sessions :
        /\ game_sessions[s].is_active
        /\ game_sessions[s].image_idx > 0
        /\ \E i \in 1..Len(game_sessions[s].puzzle) :
               game_sessions[s].puzzle[i].guessed
        /\ end_game(game_sessions, s).response.status = "success"
        /\ get_game_status(end_game(game_sessions, s).sessions, s)
               .response.status = "no_game"

(***************************************************************************)
(* C14.  end_game on an id that is not in the registry fails with the      *)
(* no-session error and leaves the registry as it was; on an id that is    *)
(* in the registry it succeeds whatever the game's state (in play, won,    *)
(* lost, never activated), deletes that entry and no other, and returns    *)
(* the session's word and player name.                                     *)
(***************************************************************************)
C14_EndGame ==
    \A s \in SessionIds :
        LET r == end_game(game_sessions, s)
        IN  IF s \notin DOMAIN game_sessions
            THEN /\ r.response = [status |-> "error",
                                  message |-> "No game session found."]
                 /\ r.sessions = game_sessions
            ELSE /\ r.response.status = "success"
                 /\ r.response.message_word = game_sessions[s].word
                 /\ r.response.message_player = game_sessions[s].player_name
                 /\ r.sessions =
                        [o \in DOMAIN game_sessions \ {s} |-> game_sessions[o]]

\* A lost game on which end_game acts.
C14_Witness ==
    \E s \in DOMAIN game_sessions :
        /\ GameLost(game_sessions[s])
        /\ end_game(game_sessions, s).response.status = "success"
        /\ end_game(game_sessions, s).response.message_word
               = game_sessions[s].word

(***************************************************************************)
(* C15.  status changes nothing: the registry after the call is the        *)
(* registry before it (no GameState changed, no session created), and a    *)
(* second status call right after the first returns the same result.       *)
(***************************************************************************)
C15_StatusReadOnly ==
    \A s \in SessionIds :
        LET first == get_game_status(game_sessions, s)
            second == get_game_status(first.sessions, s)
        IN  /\ first.sessions = game_sessions
            /\ second.sessions = game_sessions
            /\ second.response = first.response

\* A game in play, with guesses made, on which status acts.
C15_Witness ==
    \E s \in DOMAIN game_sessions :
        /\ game_sessions[s].guesses # {}
        /\ get_game_status(game_sessions, s).response.status = "active"
        /\ get_game_status(game_sessions, s).response.guesses_made
               = sorted_list(game_sessions[s].guesses)

(***************************************************************************)
(* C17.  Win and loss exclude each other: no reachable game has every      *)
(* letter revealed and 9 misses, and no accepted guess leaves a game in    *)
(* which both hold.                                                        *)
(***************************************************************************)
WonAndLost(gs) == AllRevealed(gs) /\ gs.image_idx >= MaxMisses

C17_WinLossExclusive ==
    \A s \in DOMAIN game_sessions :
        /\ ~WonAndLost(game_sessions[s])
        /\ ~(is_game_won(game_sessions[s]) /\ is_game_lost(game_sessions[s]))
        /\ \A c \in Letters :
               Accepted(game_sessions[s], <<c>>) =>
                   ~WonAndLost(make_guess(game_sessions, <<c>>, s).sessions[s])

\* A game won with 8 misses: one more miss would have lost it.
C17_Witness ==
    \E s \in DOMAIN game_sessions :
        /\ GameWon(game_sessions[s])
        /\ game_sessions[s].image_idx = MaxMisses - 1
        /\ ~game_sessions[s].is_active

(***************************************************************************)
(* C18.  The display string of a session has one symbol per position of    *)
(* the secret word, joined by single spaces, so its length is              *)
(* 2 * wordLength - 1; position i shows the word's letter if that letter   *)
(* has been guessed and '_' otherwise; the letters shown are the guessed   *)
(* letters that occur in the word.                                         *)
(***************************************************************************)
DisplayFormat(gs) ==
    LET d == get_display_word(gs)
    IN  /\ Len(d) = 2 * Len(gs.word) - 1
        /\ \A i \in 1..Len(gs.word) :
               d[2 * i - 1] = IF gs.word[i] \in gs.guesses
                              THEN gs.word[i] ELSE "_"
        /\ \A i \in 1..(Len(gs.word) - 1) : d[2 * i] = " "
        /\ set_of(d) \ {"_", " "} = gs.guesses \cap set_of(gs.word)

\* As stated, for every session of the registry.
C18_DisplayFormat ==
    \A s \in DOMAIN game_sessions : DisplayFormat(game_sessions[s])

\* For the sessions whose game has started (a non-empty secret word).
C18_DisplayFormatStarted ==
    \A s \in DOMAIN game_sessions :
        Started(game_sessions[s]) => DisplayFormat(game_sessions[s])

\* A word with a repeated letter revealed and other letters hidden, after
\* a miss.
C18_Witness ==
    \E s \in DOMAIN game_sessions :
        /\ get_display_word(game_sessions[s])
               = <<"_", " ", "A", " ", "_", " ", "_", " ", "A">>
        /\ game_sessions[s].image_idx > 0

(***************************************************************************)
(* C19.  For every session of the registry, is_active holds exactly when   *)
(* the game is neither won nor lost; so an active game is never over, and  *)
(* the guess handler's branch for an active game that is already over is   *)
(* never taken.                                                            *)
(***************************************************************************)
C19_ActiveIffNotOver ==
    \A s \in DOMAIN game_sessions :
        LET gs == game_sessions[s]
        IN  /\ gs.is_active <=> ~(AllRevealed(gs) \/ gs.image_idx >= MaxMisses)
            /\ gs.is_active <=> ~is_game_over(gs)
            /\ gs.is_active => Started(gs)

\* A game one miss from loss and one letter from win, still active, and
\* the same game lost by the next miss.
C19_Witness ==
    \E s \in DOMAIN game_sessions :
        /\ game_sessions[s].is_active
        /\ game_sessions[s].image_idx = MaxMisses - 1
        /\ Cardinality(game_sessions[s].remaining_letters) = 1
        /\ \E c \in Letters :
               /\ Accepted(game_sessions[s], <<c>>)
               /\ ~make_guess(game_sessions, <<c>>, s).sessions[s].is_active

(***************************************************************************)
(* C20.  The number of guessed letters is the miss count plus the number   *)
(* of distinct letters of the secret word that are revealed; a letter is   *)
(* recorded at most once.                                                  *)
(***************************************************************************)
RevealedLetters(gs) ==
    {gs.puzzle[i].character :
        i \in {j \in 1..Len(gs.puzzle) : gs.puzzle[j].guessed}}

C20_GuessCount ==
    \A s \in DOMAIN game_sessions :
        LET gs == game_sessions[s]
            made == sorted_list(gs.guesses)
        IN  /\ Cardinality(gs.guesses)
                   = gs.image_idx + Cardinality(RevealedLetters(gs))
            /\ Len(made) = Cardinality(gs.guesses)
            /\ \A i, j \in 1..Len(made) : i # j => made[i] # made[j]

\* A game with two misses and a revealed letter that occurs twice.
C20_Witness ==
    \E s \in DOMAIN game_sessions :
        /\ game_sessions[s].image_idx = 2
        /\ RevealedLetters(game_sessions[s]) = {"A"}
        /\ Len(game_sessions[s].word) = 5
        /\ Cardinality(game_sessions[s].guesses) = 3

(***************************************************************************)
(* C16.  Two guess calls in flight at once for the same session do not     *)
(* interleave: once both have returned, the GameState and the two results  *)
(* are those of the two guesses made one after the other, in one of the    *)
(* two orders, from the state the earlier call found; and the mask matches *)
(* the guessed letters and the miss count is the number of guessed letters *)
(* that are not in the word.                                               *)
(***************************************************************************)
DataModelInvariants(gs) ==
    /\ \A i \in 1..Len(gs.puzzle) :
           gs.puzzle[i].guessed <=> gs.puzzle[i].character \in gs.guesses
    /\ gs.image_idx = Cardinality(gs.guesses \ set_of(gs.word))

\* The state and the results are those of call x made and then call y,
\* starting from the registry `base`.
OneAfterTheOther(base, x, y) ==
    LET s == calls[x].session_id
        one == make_guess(base, calls[x].raw_letter, s)
        two == make_guess(one.sessions, calls[y].raw_letter, s)
    IN  /\ calls[x].response = one.response
        /\ calls[y].response = two.response
        /\ game_sessions = two.sessions

C16_GuessesSerialized ==
    (/\ DOMAIN calls = CallIds
     /\ \A c \in CallIds : calls[c].pc = "done"
     /\ calls[1].session_id = calls[2].session_id)
        => /\ \E a, b \in CallIds :
                  /\ a # b
                  /\ calls[a].first
                  /\ \/ OneAfterTheOther(calls[a].entry, a, b)
                     \/ OneAfterTheOther(calls[a].entry, b, a)
           /\ calls[1].session_id \in DOMAIN game_sessions
                  => DataModelInvariants(game_sessions[calls[1].session_id])

(***************************************************************************)
(* C21.  Within one game, that is on every step of a session that is not a *)
(* start_game or an end_game for it, the session stays in the registry,    *)
(* its guessed letters only grow, its miss count does not go down, no      *)
(* revealed position becomes hidden again, and its secret word and player  *)
(* name stay the same.                                                     *)
(***************************************************************************)
WithinGame(before, after) ==
    /\ before.guesses \subseteq after.guesses
    /\ after.image_idx >= before.image_idx
    /\ Len(after.puzzle) = Len(before.puzzle)
    /\ \A i \in 1..Len(before.puzzle) :
           before.puzzle[i].guessed => after.puzzle[i].guessed
    /\ after.word = before.word
    /\ after.player_name = before.player_name

C21_MonotoneWithinGame ==
    [][\A s \in DOMAIN game_sessions :
           \/ /\ s \in DOMAIN game_sessions'
              /\ WithinGame(game_sessions[s], game_sessions'[s])
           \/ EndGame(s)
           \/ \E p \in Players, w \in SecretWordOutcomes : StartGame(p, s, w)]_vars

\* A game in play in which a position has been revealed, a miss has been
\* counted and a further guess is accepted.
C21_Witness ==
    \E s \in DOMAIN game_sessions :
        /\ game_sessions[s].is_active
        /\ game_sessions[s].image_idx = 2
        /\ \E i \in 1..Len(game_sessions[s].puzzle) :
               game_sessions[s].puzzle[i].guessed
        /\ \E c \in Letters :
               /\ Accepted(game_sessions[s], <<c>>)
               /\ game_sessions[s].guesses
                      # make_guess(game_sessions, <<c>>, s).sessions[s].guesses

(***************************************************************************)
(* C22.  Every started game terminates.  A game whose secret word has d    *)
(* distinct letters has accepted at most d + 8 guesses, and at most d + 7  *)
(* while it is still in play; when the player keeps submitting letters not *)
(* yet guessed, a game in play is eventually won or lost; and a game that  *)
(* is won or lost stays as it is on every step that is not a start_game or *)
(* an end_game for it.                                                     *)
(***************************************************************************)
DistinctLetters(gs) == Cardinality(set_of(gs.word))

GuessBound(gs) ==
    /\ Cardinality(gs.guesses) <= DistinctLetters(gs) + 8
    /\ gs.is_active => Cardinality(gs.guesses) <= DistinctLetters(gs) + 7

Over(s) ==
    /\ s \in DOMAIN game_sessions
    /\ GameWon(game_sessions[s]) \/ GameLost(game_sessions[s])

WordSourceFails == [raised |-> TRUE, word |-> <<>>]

C23_FailedStartLeavesResetSession ==
    \A s \in SessionIds, p \in OnePlayer :
        LET r == start_hangman_game(game_sessions, p, s, WordSourceFails)
            gs == r.sessions[s]
        IN  /\ r.response.status = "error"
            /\ s \in DOMAIN r.sessions
            /\ ~gs.is_active
            /\ gs.word = <<>>
            /\ gs.guesses = {}
            /\ gs.image_idx = 0
            /\ gs.puzzle = <<>>
            /\ \A l \in Inputs :
                   LET g == make_guess(r.sessions, l, s)
                   IN  /\ g.response.status = "error"
                       /\ g.sessions = r.sessions
            /\ \A w \in Words :
                   LET again == start_hangman_game(
                                    r.sessions, p, s,
                                    [raised |-> FALSE, word |-> w]).sessions
                   IN  /\ again[s].is_active
                       /\ make_guess(again, <<"A">>, s).response.status = "success"

\* A game in play, with a reveal and a miss, on which a failing start_game
\* acts.
C23_Witness ==
    \E s \in DOMAIN game_sessions :
        /\ game_sessions[s].is_active
        /\ game_sessions[s].image_idx = 1
        /\ "A" \in game_sessions[s].guesses
        /\ \E p \in OnePlayer :
               LET r == start_hangman_game(game_sessions, p, s, WordSourceFails)
               IN  /\ r.response.status = "error"
                   /\ r.sessions[s].guesses = {}

====
